---- MODULE Spec2Model ----
(***************************************************************************)
(* Logical clocks of clock.py: LamportClock and VectorClock, their         *)
(* timestamps and comparisons, export and create_from_export.              *)
(*                                                                         *)
(* A clock object is a record [process_id, counter] (LamportClock) or      *)
(* [process_id, clocks] (VectorClock).  A process identity (uuid.UUID) is  *)
(* a positive integer, ordered as UUID.__lt__ orders by the 128-bit value; *)
(* None is 0.  A vector timestamp is a function from a set of process      *)
(* identities to counters (a dict).  An optional value is a sequence of    *)
(* length at most one.                                                     *)
(***************************************************************************)
EXTENDS Integers, Sequences, FiniteSets, TLC

\* ------------------------------------------------------------------ bounds
MaxInst == 2          \* clock objects in one run, constructed or restored
                      \* (SpecFork allows one more)
MaxTicks == 3         \* get_time/export calls made in one run, on all clocks
                      \* (SpecFork allows one more)
MaxSeen == 1          \* seen_time calls with an arbitrary argument in one run
NumArgPids == 2       \* process identities in a timestamp given as an argument
MaxArg == 1           \* largest counter in a timestamp given as an argument
NumCmpPids == 3       \* process identities in the operands of a comparison
MaxCmp == 2           \* largest counter in the operands of a comparison

PIDS == 1..(MaxInst + 1)
None == 0
NoneVal == <<>>
Some(x) == <<x>>
Kinds == {"Lamport", "Vector"}

VARIABLES
    kind,          \* the clock class under test (clock_class of the tests)
    clock,         \* sequence of the clock objects that exist
    returned,      \* per clock: the sequence of its get_time/export calls
    args,          \* per clock: the arbitrary timestamps given to its seen_time
    past,          \* per clock: the events in its causal past
    ticks,         \* number of get_time/export calls the run may still make
    spare,         \* number of clocks create_from_export may still add
    origin,        \* per clock: the export event it was restored from, if any
    last_restore,  \* the latest create_from_export call and its outcome
    lhs, rhs, cmp, \* operands and outcome of a timestamp comparison
    start,         \* the clock objects before the seen_time calls in log
    log            \* the timestamps passed to seen_time of clock 1, in order

vars == <<kind, clock, returned, args, past, ticks, spare, origin, last_restore,
          lhs, rhs, cmp, start, log>>

Max(a, b) == IF a >= b THEN a ELSE b

\* ------------------------------------------------------- Lamport time
\* _LamportTimeStamp, dataclass(order=True): compared as the tuples
\* (counter, process_id), i.e. by the first field that differs.
LamportLtSwapped(a, b) ==
    IF a.process_id # b.process_id THEN a.process_id < b.process_id
    ELSE IF a.counter # b.counter THEN a.counter < b.counter
    ELSE FALSE

LamportLtCounterOnly(a, b) == a.counter < b.counter

LamportLt(a, b) ==
    IF a.counter # b.counter THEN a.counter < b.counter
    ELSE IF a.process_id # b.process_id THEN a.process_id < b.process_id
    ELSE FALSE

\* LamportClock.__init__: uuid4 is the value uuid.uuid4() would return.
LamportClock(process_id, uuid4) ==
    [process_id |-> IF process_id = None THEN uuid4 ELSE process_id,
     counter |-> 0]

LamportGetTimeNoTick(c) ==
    [clock |-> c,
     ret |-> [counter |-> c.counter, process_id |-> c.process_id]]

\* LamportClock.get_time: the clock afterwards and the value returned.
LamportGetTime(c) ==
    [clock |-> [c EXCEPT !.counter = @ + 1],
     ret |-> [counter |-> c.counter + 1, process_id |-> c.process_id]]

LamportSeenTimeIgnore(c, ts) == c

LamportSeenTimePlusOne(c, ts) ==
    [c EXCEPT !.counter = Max(@, ts.counter) + 1]

LamportSeenTimeAdopt(c, ts) ==
    [c EXCEPT !.counter = Max(@, ts.counter), !.process_id = ts.process_id]

\* LamportClock.seen_time
LamportSeenTime(c, ts) == [c EXCEPT !.counter = Max(@, ts.counter)]

LamportExportStale(c) ==
    [clock |-> c,
     ret |-> [pid |-> c.process_id,
              ts |-> Some([counter |-> c.counter, process_id |-> c.process_id])]]

\* LamportClock.export
LamportExport(c) ==
    LET r == LamportGetTime(c)
    IN  [clock |-> r.clock,
         ret |-> [pid |-> c.process_id, ts |-> Some(r.ret)]]

LamportCreateFromExportFresh(export, uuid4) ==
    IF export.ts = NoneVal
    THEN [raised |-> "AttributeError"]
    ELSE [raised |-> "no",
          ret |-> LamportClock(export.pid, uuid4)]

\* LamportClock.create_from_export: seen_time(None) raises AttributeError.
LamportCreateFromExport(export, uuid4) ==
    LET c == LamportClock(export.pid, uuid4)
    IN  IF export.ts = NoneVal
        THEN [raised |-> "AttributeError"]
        ELSE [raised |-> "no", ret |-> LamportSeenTime(c, export.ts[1])]

\* ------------------------------------------------------- vector time
\* defaultdict(int) read: an absent key reads as 0.
Get(d, k) == IF k \in DOMAIN d THEN d[k] ELSE 0

\* d[k] = v
Put(d, k, v) == [p \in DOMAIN d \cup {k} |-> IF p = k THEN v ELSE d[p]]

VectorLtOutcomeSomeLess(a, b) ==
    IF DOMAIN a \subseteq DOMAIN b
    THEN IF \E pid \in DOMAIN a : a[pid] < b[pid] THEN "True" ELSE "False"
    ELSE "False"

VectorLtOutcomeNoSubset(a, b) ==
    IF \E pid \in DOMAIN a : pid \notin DOMAIN b THEN "KeyError"
    ELSE IF \E pid \in DOMAIN a : a[pid] > b[pid] THEN "False"
    ELSE IF a # b THEN "True" ELSE "False"

VectorLtOutcomeNoNeq(a, b) ==
    IF DOMAIN a \subseteq DOMAIN b
    THEN IF \E pid \in DOMAIN a : a[pid] > b[pid] THEN "False" ELSE "True"
    ELSE "False"

\* _VectorTimeStamp.__lt__: "True", "False", or "KeyError" when
\* other.timestamps[pid] is read for a pid that other does not hold.
VectorLtOutcome(a, b) ==
    IF DOMAIN a \subseteq DOMAIN b
    THEN IF \E pid \in DOMAIN a : pid \notin DOMAIN b THEN "KeyError"
         ELSE IF \E pid \in DOMAIN a : a[pid] > b[pid] THEN "False"
         ELSE IF a # b THEN "True" ELSE "False"
    ELSE "False"

\* VectorClock.__init__
VectorClock(process_id, uuid4) ==
    [process_id |-> IF process_id = None THEN uuid4 ELSE process_id,
     clocks |-> <<>>]

VectorGetTimeStale(c) ==
    LET old == Put(c.clocks, c.process_id, Get(c.clocks, c.process_id))
        new == Put(c.clocks, c.process_id, Get(c.clocks, c.process_id) + 1)
    IN  [clock |-> [c EXCEPT !.clocks = new], ret |-> old]

\* VectorClock.get_time: the timestamp is a copy of the clocks dict.
VectorGetTime(c) ==
    LET new == Put(c.clocks, c.process_id, Get(c.clocks, c.process_id) + 1)
    IN  [clock |-> [c EXCEPT !.clocks = new], ret |-> new]

VectorSeenTimeOverwrite(c, ts) ==
    [c EXCEPT !.clocks =
        [p \in DOMAIN c.clocks \cup DOMAIN ts |->
            IF p \in DOMAIN ts THEN ts[p] ELSE c.clocks[p]]]

VectorSeenTimeIgnore(c, ts) == c

VectorSeenTimeSum(c, ts) ==
    [c EXCEPT !.clocks =
        [p \in DOMAIN c.clocks \cup DOMAIN ts |->
            Get(c.clocks, p) + Get(ts, p)]]

VectorSeenTimeTick(c, ts) ==
    [c EXCEPT !.clocks =
        [p \in DOMAIN c.clocks \cup DOMAIN ts \cup {c.process_id} |->
            IF p = c.process_id
            THEN Max(Get(c.clocks, p), Get(ts, p)) + 1
            ELSE Max(Get(c.clocks, p), Get(ts, p))]]

\* VectorClock.seen_time: the keys of a dict are distinct, so the loop's
\* assignments do not interfere.
VectorSeenTime(c, ts) ==
    [c EXCEPT !.clocks =
        [p \in DOMAIN c.clocks \cup DOMAIN ts |->
            IF p \in DOMAIN ts THEN Max(Get(c.clocks, p), ts[p])
            ELSE c.clocks[p]]]

\* VectorClock.export
VectorExport(c) ==
    LET r == VectorGetTime(c)
    IN  [clock |-> r.clock,
         ret |-> [pid |-> c.process_id, ts |-> Some(r.ret)]]

\* VectorClock.create_from_export
VectorCreateFromExport(export, uuid4) ==
    LET c == VectorClock(export.pid, uuid4)
    IN  IF export.ts = NoneVal
        THEN [raised |-> "AttributeError"]
        ELSE [raised |-> "no", ret |-> VectorSeenTime(c, export.ts[1])]

\* ------------------------------------------- AbstractClock, by class
NewClock(k, process_id, uuid4) ==
    IF k = "Lamport" THEN LamportClock(process_id, uuid4)
    ELSE VectorClock(process_id, uuid4)

GetTime(k, c) == IF k = "Lamport" THEN LamportGetTime(c) ELSE VectorGetTime(c)

SeenTime(k, c, ts) ==
    IF k = "Lamport" THEN LamportSeenTime(c, ts) ELSE VectorSeenTime(c, ts)

ExportOf(k, c) == IF k = "Lamport" THEN LamportExport(c) ELSE VectorExport(c)

CreateFromExport(k, export, uuid4) ==
    IF k = "Lamport" THEN LamportCreateFromExport(export, uuid4)
    ELSE VectorCreateFromExport(export, uuid4)

\* t1 < t2 on the timestamps of class k
LtOutcome(k, a, b) ==
    IF k = "Lamport" THEN (IF LamportLt(a, b) THEN "True" ELSE "False")
    ELSE VectorLtOutcome(a, b)

Lt(k, a, b) == LtOutcome(k, a, b) = "True"

\* ------------------------------------------------------------ the system
\* Timestamps over the process identities P with counters 0..n.
TimeStamps(k, P, n) ==
    IF k = "Lamport" THEN [counter : 0..n, process_id : P]
    ELSE UNION {[D -> 0..n] : D \in SUBSET P}

Insts == 1..Len(clock)
Unset == "unset"

\* An event is a get_time or export call: <<i, n>> is the n-th on clock i.
Events == {e \in (1..(MaxInst + 1)) \X (1..(MaxTicks + 1)) :
              e[1] \in Insts /\ e[2] <= Len(returned[e[1]])}
Ev(e) == returned[e[1]][e[2]]

NoMerge == start = <<>> /\ log = <<>>

NoCompare == lhs = NoneVal /\ rhs = NoneVal /\ cmp = Unset /\ NoMerge

\* Some clocks are constructed with no argument and each draws a uuid4; the
\* clocks are numbered in the order of their identities.
Init ==
    /\ kind \in Kinds
    /\ \E n \in 1..MaxInst :
          /\ clock = [i \in 1..n |-> NewClock(kind, None, i)]
          /\ returned = [i \in 1..n |-> <<>>]
          /\ args = [i \in 1..n |-> {}]
          /\ past = [i \in 1..n |-> {}]
          /\ origin = [i \in 1..n |-> NoneVal]
          /\ spare = MaxInst - n
    /\ ticks = MaxTicks
    /\ last_restore = [raised |-> Unset]
    /\ NoCompare

\* One clock, whose seen_time is given arbitrary timestamps.
InitOne ==
    /\ kind \in Kinds
    /\ \E u \in 1..NumArgPids : clock = <<NewClock(kind, None, u)>>
    /\ returned = <<<<>>>>
    /\ args = <<{}>>
    /\ past = <<{}>>
    /\ origin = <<NoneVal>>
    /\ ticks = MaxTicks
    /\ spare = 0
    /\ last_restore = [raised |-> Unset]
    /\ NoCompare

\* t = c.get_time()
DoGetTime(i) ==
    /\ ticks > 0
    /\ LET r == GetTime(kind, clock[i])
       IN  /\ clock' = [clock EXCEPT ![i] = r.clock]
           /\ returned' = [returned EXCEPT ![i] = Append(@,
                  [op |-> "get_time", ts |-> r.ret, bundle |-> NoneVal,
                   args |-> args[i], past |-> past[i]])]
    /\ past' = [past EXCEPT ![i] = @ \cup {<<i, Len(returned[i]) + 1>>}]
    /\ ticks' = ticks - 1
    /\ UNCHANGED <<kind, args, spare, origin, last_restore, lhs, rhs, cmp, start, log>>

\* E = c.export()
DoExport(i) ==
    /\ ticks > 0
    /\ LET r == ExportOf(kind, clock[i])
       IN  /\ clock' = [clock EXCEPT ![i] = r.clock]
           /\ returned' = [returned EXCEPT ![i] = Append(@,
                  [op |-> "export", ts |-> r.ret.ts[1], bundle |-> Some(r.ret),
                   args |-> args[i], past |-> past[i]])]
    /\ past' = [past EXCEPT ![i] = @ \cup {<<i, Len(returned[i]) + 1>>}]
    /\ ticks' = ticks - 1
    /\ UNCHANGED <<kind, args, spare, origin, last_restore, lhs, rhs, cmp, start, log>>

\* c.seen_time(t) for the timestamp t of event e.  Any timestamp ever returned
\* may arrive at any clock at any later time, any number of times or never:
\* the channel delays, loses, duplicates and reorders.
DoSeenTime(i, e) ==
    /\ clock' = [clock EXCEPT ![i] = SeenTime(kind, @, Ev(e).ts)]
    /\ past' = [past EXCEPT ![i] = @ \cup Ev(e).past \cup {e}]
    /\ UNCHANGED <<kind, returned, args, ticks, spare, origin, last_restore,
                   lhs, rhs, cmp, start, log>>

\* c.seen_time(ts) for a timestamp that no clock of the model returned.
DoSeenArg(i, ts) ==
    /\ Cardinality(args[i]) < MaxSeen
    /\ clock' = [clock EXCEPT ![i] = SeenTime(kind, @, ts)]
    /\ args' = [args EXCEPT ![i] = @ \cup {ts}]
    /\ UNCHANGED <<kind, returned, past, ticks, spare, origin, last_restore,
                   lhs, rhs, cmp, start, log>>

\* The bundle of export event e as it reaches create_from_export: intact, or
\* with its process identity or its timestamp missing.
Bundles(e) ==
    LET b == Ev(e).bundle[1]
    IN  {b, [b EXCEPT !.pid = None], [b EXCEPT !.ts = NoneVal]}

UsedPids == {clock[i].process_id : i \in Insts}

\* c2 = clock_class.create_from_export(export)
DoCreateFromExport(e, export, uuid4) ==
    /\ spare > 0
    /\ LET r == CreateFromExport(kind, export, uuid4)
       IN  IF r.raised # "no"
           THEN /\ last_restore' = [raised |-> r.raised, export |-> export]
                /\ UNCHANGED <<clock, returned, args, past, origin, spare>>
           ELSE /\ last_restore' = [raised |-> "no", export |-> export,
                                    inst |-> Len(clock) + 1]
                /\ clock' = Append(clock, r.ret)
                /\ returned' = Append(returned, <<>>)
                /\ args' = Append(args, {})
                /\ past' = Append(past, Ev(e).past \cup {e})
                /\ origin' = Append(origin, Some([event |-> e, export |-> export]))
                /\ spare' = spare - 1
    /\ UNCHANGED <<kind, ticks, lhs, rhs, cmp, start, log>>

Restore ==
    \E e \in Events :
        /\ Ev(e).op = "export"
        /\ \E export \in Bundles(e) :
             \E uuid4 \in (IF export.pid = None THEN PIDS \ UsedPids ELSE {None}) :
                DoCreateFromExport(e, export, uuid4)

Next ==
    \/ \E i \in Insts : DoGetTime(i)
    \/ \E i \in Insts : DoExport(i)
    \/ \E i \in Insts : \E e \in Events : DoSeenTime(i, e)
    \/ Restore

Spec == Init /\ [][Next]_vars

\* MaxInst clocks are constructed, and one more clock may be restored from an
\* export of one of them while all of them stay in use; the run has one more
\* get_time/export call for it.
InitFork ==
    /\ kind \in Kinds
    /\ clock = [i \in 1..MaxInst |-> NewClock(kind, None, i)]
    /\ returned = [i \in 1..MaxInst |-> <<>>]
    /\ args = [i \in 1..MaxInst |-> {}]
    /\ past = [i \in 1..MaxInst |-> {}]
    /\ origin = [i \in 1..MaxInst |-> NoneVal]
    /\ spare = 1
    /\ ticks = MaxTicks + 1
    /\ last_restore = [raised |-> Unset]
    /\ NoCompare

SpecFork == InitFork /\ [][Next]_vars

NextOne ==
    \/ \E i \in Insts : DoGetTime(i)
    \/ \E i \in Insts : DoExport(i)
    \/ \E i \in Insts : \E ts \in TimeStamps(kind, 1..NumArgPids, MaxArg) :
          DoSeenArg(i, ts)

SpecOne == InitOne /\ [][NextOne]_vars

\* ------------------------------------------------- comparison alone
InitCmp ==
    /\ kind \in Kinds
    /\ lhs \in TimeStamps(kind, 1..NumCmpPids, MaxCmp)
    /\ rhs \in TimeStamps(kind, 1..NumCmpPids, MaxCmp)
    /\ cmp = Unset
    /\ clock = <<>> /\ returned = <<>> /\ args = <<>> /\ ticks = 0 /\ spare = 0
    /\ past = <<>> /\ origin = <<>> /\ last_restore = [raised |-> Unset]
    /\ NoMerge

\* cmp = (lhs < rhs)
Compare ==
    /\ cmp = Unset
    /\ cmp' = LtOutcome(kind, lhs, rhs)
    /\ UNCHANGED <<kind, clock, returned, args, past, ticks, spare, origin,
                   last_restore, lhs, rhs, start, log>>

NextCmp == Compare

SpecCmp == InitCmp /\ [][NextCmp]_vars

\* ------------------------------------------------- seen_time alone
\* One clock in any state that seen_time can leave a new clock in, and two
\* timestamps Ta = lhs and Tb = rhs that it is given, two calls in all.
InitMerge ==
    /\ kind \in Kinds
    /\ \E u \in 1..NumArgPids :
          \E t0 \in TimeStamps(kind, 1..NumArgPids, MaxArg) :
             clock = <<SeenTime(kind, NewClock(kind, None, u), t0)>>
    /\ start = clock
    /\ log = <<>>
    /\ lhs \in TimeStamps(kind, 1..NumArgPids, MaxArg)
    /\ rhs \in TimeStamps(kind, 1..NumArgPids, MaxArg)
    /\ cmp = Unset
    /\ returned = <<<<>>>> /\ args = <<{}>> /\ past = <<{}>>
    /\ origin = <<NoneVal>> /\ ticks = 0 /\ spare = 0
    /\ last_restore = [raised |-> Unset]

\* clock[1].seen_time(ts)
DoObserve(ts) ==
    /\ Len(log) < 2
    /\ clock' = [clock EXCEPT ![1] = SeenTime(kind, @, ts)]
    /\ log' = Append(log, ts)
    /\ UNCHANGED <<kind, returned, args, past, ticks, spare, origin,
                   last_restore, lhs, rhs, cmp, start>>

NextMerge ==
    \/ DoObserve(lhs)
    \/ DoObserve(rhs)

SpecMerge == InitMerge /\ [][NextMerge]_vars

\* ------------------------------------------------------------ claims
Pid(e) == clock[e[1]].process_id
Ts(e) == Ev(e).ts

\* C1: on one clock, under any sequence of get_time, seen_time and export
\* calls, each timestamp get_time returns is greater than every timestamp the
\* clock returned before and than every timestamp passed to seen_time before.
C1_LocalMonotone ==
    \A b \in Events :
        Ev(b).op = "get_time" =>
            /\ \A a \in Events :
                  (a[1] = b[1] /\ a[2] < b[2]) => Lt(kind, Ts(a), Ts(b))
            /\ \A t \in Ev(b).args : Lt(kind, t, Ts(b))

\* A vector clock returned a timestamp, was then given one that holds its own
\* identity and a foreign one, and returned another.
C1_Witness ==
    /\ kind = "Vector"
    /\ \E b \in Events :
          /\ Ev(b).op = "get_time" /\ b[2] >= 2
          /\ \E t \in Ev(b).args \ Ev(<<b[1], 1>>).args :
                /\ Pid(b) \in DOMAIN t /\ t[Pid(b)] >= 1
                /\ DOMAIN t # {Pid(b)}

\* C2: among clocks that exchange timestamps over a channel that delays,
\* loses, duplicates and reorders, each timestamp a clock returns is greater
\* than every timestamp it received before and than its own earlier ones.
C2_MergeMonotone ==
    \A i \in Insts : \A n \in 1..Len(returned[i]) :
        \A a \in returned[i][n].past : Lt(kind, Ts(a), returned[i][n].ts)

\* Clocks 1 and 2 each returned a timestamp, each observed the other's, and
\* clock 1 returned a further one.
C2_Witness ==
    /\ Len(clock) >= 2
    /\ clock[1].process_id # clock[2].process_id
    /\ Len(returned[1]) >= 2 /\ Len(returned[2]) >= 1
    /\ <<2, 1>> \in returned[1][2].past
    /\ <<2, 1>> \notin returned[1][1].past
    /\ <<1, 1>> \in past[2]
    /\ returned[2][1].past = {}

\* The bundle a clock was restored from is the one the export returned.
Intact(c) ==
    /\ origin[c] # NoneVal
    /\ origin[c][1].export = Ev(origin[c][1].event).bundle[1]

\* C3: a clock restored from the export E of clock c1 has c1's process
\* identity, and every timestamp it returns is greater than E.ts and than
\* every timestamp c1 returned before the export.
C3_RestoreMonotone ==
    \A c \in Insts :
        Intact(c) =>
            LET e == origin[c][1].event
            IN  /\ clock[c].process_id = Pid(e)
                /\ \A n \in 1..Len(returned[c]) :
                      /\ Lt(kind, origin[c][1].export.ts[1], returned[c][n].ts)
                      /\ \A a \in Events :
                            (a[1] = e[1] /\ a[2] <= e[2])
                               => Lt(kind, Ts(a), returned[c][n].ts)

\* A clock returned a timestamp, was exported, and the clock restored from
\* the export returned a timestamp.
C3_Witness ==
    \E c \in Insts :
        /\ Intact(c)
        /\ origin[c][1].event[2] >= 2
        /\ Len(returned[c]) >= 1

\* C4: an export step is one advance: the bundle carries the clock's process
\* identity and the timestamp get_time would have returned, the clock is left
\* as get_time would have left it, and the timestamp is greater than every
\* timestamp the clock returned or observed before.
C4_ExportAdvances ==
    [][\A i \in Insts :
          (/\ Len(returned'[i]) = Len(returned[i]) + 1
           /\ returned'[i][Len(returned'[i])].op = "export")
          => LET b == returned'[i][Len(returned'[i])]
             IN  /\ b.bundle[1].pid = clock[i].process_id
                 /\ b.bundle[1].ts = Some(b.ts)
                 /\ b.ts = GetTime(kind, clock[i]).ret
                 /\ clock'[i] = GetTime(kind, clock[i]).clock
                 /\ \A a \in past[i] : Lt(kind, Ts(a), b.ts)]_vars

\* A clock was exported twice in a row after it observed a peer's timestamp.
C4_Witness ==
    \E i \in Insts :
        /\ Len(returned[i]) >= 2
        /\ returned[i][1].op = "export" /\ returned[i][2].op = "export"
        /\ \E a \in returned[i][1].past : a[1] # i

\* C5: create_from_export of a bundle whose process identity or timestamp is
\* missing raises and returns no clock, and no restored clock has another
\* process identity than the clock that was exported.
C5_MalformedRejected ==
    /\ (/\ last_restore.raised # Unset
        /\ (last_restore.export.pid = None \/ last_restore.export.ts = NoneVal))
       => last_restore.raised # "no"
    /\ \A c \in Insts :
          origin[c] # NoneVal => clock[c].process_id = Pid(origin[c][1].event)

\* C6: Lamport time is consistent with causality: if event a happens before
\* event b (on the same clock, or through timestamps passed to seen_time,
\* transitively), then the timestamp of a is less than that of b, and the
\* timestamp of b is not less than that of a.
C6_LamportCausal ==
    kind = "Lamport" =>
        \A a, b \in Events :
            a \in Ev(b).past
               => LamportLt(Ts(a), Ts(b)) /\ ~LamportLt(Ts(b), Ts(a))

\* Clock a's second timestamp reached another clock, whose first timestamp
\* then has counter 3.
C6_Witness ==
    /\ kind = "Lamport"
    /\ \E a, b \in Events :
          /\ Pid(a) # Pid(b)
          /\ a \in Ev(b).past
          /\ a[2] = 2 /\ b[2] = 1
          /\ Ts(b).counter = 3

\* C7: two timestamps returned by Lamport clocks of different process
\* identities are never equal, and exactly one is less than the other.
C7_LamportTotal ==
    kind = "Lamport" =>
        \A a, b \in Events :
            Pid(a) # Pid(b) =>
                /\ Ts(a) # Ts(b)
                /\ LamportLt(Ts(a), Ts(b)) # LamportLt(Ts(b), Ts(a))

\* Two Lamport clocks that never communicated returned timestamps with equal
\* counters.
C7_Witness ==
    /\ kind = "Lamport"
    /\ \E a, b \in Events :
          /\ Pid(a) # Pid(b)
          /\ Ts(a).counter = Ts(b).counter
          /\ past[a[1]] = {a} /\ past[b[1]] = {b}

\* C8: (c1, p1) < (c2, p2) iff c1 < c2, or c1 = c2 and p1 < p2.
C8_LamportOrder ==
    (kind = "Lamport" /\ cmp # Unset) =>
        (cmp = "True") =
            (\/ lhs.counter < rhs.counter
             \/ (lhs.counter = rhs.counter /\ lhs.process_id < rhs.process_id))

\* The smaller counter wins against the larger process identity.
C8_Witness ==
    /\ kind = "Lamport" /\ cmp = "True"
    /\ lhs.counter < rhs.counter /\ lhs.process_id > rhs.process_id

\* Clocks i and j have passed nothing to each other, directly or through
\* other clocks.
Independent(i, j) ==
    /\ \A e \in past[i] : e[1] # j
    /\ \A e \in past[j] : e[1] # i

\* Neither of the clocks i and j has received anything, directly or through
\* other clocks, from a clock that carries the other's process identity.
IndependentIds(i, j) ==
    /\ \A e \in past[i] : Pid(e) # clock[j].process_id
    /\ \A e \in past[j] : Pid(e) # clock[i].process_id

Incomparable(a, b) ==
    /\ VectorLtOutcome(Ts(a), Ts(b)) = "False"
    /\ VectorLtOutcome(Ts(b), Ts(a)) = "False"
    /\ Ts(a) # Ts(b)

\* C9 as stated: timestamps of two vector clocks with different process
\* identities that never observed each other, directly or through third
\* clocks, are unequal, and comparing them either way returns False and
\* raises nothing.
C9_VectorIndependent ==
    kind = "Vector" =>
        \A a, b \in Events :
            (Pid(a) # Pid(b) /\ Independent(a[1], b[1])) => Incomparable(a, b)

\* C9 as amended: the same for two vector clocks with different process
\* identities neither of which observed, directly or through third clocks, a
\* timestamp of any clock that carries the other's process identity.
C9_VectorIndependentIds ==
    kind = "Vector" =>
        \A a, b \in Events :
            (Pid(a) # Pid(b) /\ IndependentIds(a[1], b[1]))
                => Incomparable(a, b)

\* Two vector clocks that never communicated returned timestamps, one of
\* them its second, while one of them had observed a third clock.
C9_Witness ==
    /\ kind = "Vector"
    /\ \E a, b \in Events :
          /\ Pid(a) # Pid(b) /\ IndependentIds(a[1], b[1])
          /\ a[2] = 2 /\ b[2] = 1
          /\ \E e \in Ev(b).past : e[1] # a[1] /\ e[1] # b[1]

\* C10: A < B on vector timestamps returns True iff the keys of A are among
\* the keys of B, A[k] <= B[k] for every key k of A, and A # B; it returns
\* False otherwise.
C10_VectorOrder ==
    (kind = "Vector" /\ cmp # Unset) =>
        /\ cmp \in {"True", "False"}
        /\ (cmp = "True") =
              (/\ DOMAIN lhs \subseteq DOMAIN rhs
               /\ \A k \in DOMAIN lhs : lhs[k] <= rhs[k]
               /\ lhs # rhs)

\* A < B held between timestamps that differ only in a key A lacks.
C10_Witness ==
    /\ kind = "Vector" /\ cmp = "True"
    /\ DOMAIN lhs # {} /\ DOMAIN lhs # DOMAIN rhs
    /\ \A k \in DOMAIN lhs : lhs[k] = rhs[k]

\* ------------------------------------------------------------ C11
\* C11: seen_time is idempotent for both kinds of clock: a clock in any
\* state that is given the same timestamp twice in a row is left in exactly
\* the state (counter, or frontier with its key set, and process identity)
\* that giving it the timestamp once leaves it in.
C11_SeenIdempotent ==
    (Len(log) = 2 /\ log[1] = log[2]) =>
        clock[1] = SeenTime(kind, start[1], log[1])

\* A Lamport clock and a vector clock were given twice a timestamp that
\* changed their state the first time.
C11_Witness ==
    /\ Len(log) = 2 /\ log[1] = log[2]
    /\ clock[1] # start[1]
    /\ kind = "Vector" => (DOMAIN clock[1].clocks # DOMAIN start[1].clocks
                           /\ \E p \in DOMAIN start[1].clocks :
                                 clock[1].clocks[p] > start[1].clocks[p])

\* ------------------------------------------------------------ C12
\* C12: seen_time is commutative for both kinds of clock: from any state,
\* seen_time(Ta) then seen_time(Tb) leaves the clock in the state that
\* seen_time(Tb) then seen_time(Ta) leaves it in.
C12_SeenCommutes ==
    Len(log) = 2 =>
        clock[1] = SeenTime(kind, SeenTime(kind, start[1], log[2]), log[1])

\* The clock was given two timestamps neither of which covers the other,
\* and each of the two calls changed its state.
C12_Witness ==
    /\ Len(log) = 2
    /\ SeenTime(kind, start[1], log[1]) # start[1]
    /\ clock[1] # SeenTime(kind, start[1], log[1])
    /\ kind = "Vector" =>
          /\ SeenTime(kind, start[1], log[2]) # clock[1]
          /\ \E p \in DOMAIN log[1] \cap DOMAIN log[2] : log[1][p] # log[2][p]

\* ------------------------------------------------------------ C13
\* C13: the state of a clock never goes backwards: across every get_time,
\* seen_time and export step, with any timestamp as the argument, no key of
\* a VectorClock's frontier is removed and no entry decreases, and the
\* counter of a LamportClock never decreases.
C13_NeverBackwards ==
    [][\A i \in Insts :
          IF kind = "Lamport"
          THEN clock'[i].counter >= clock[i].counter
          ELSE /\ DOMAIN clock[i].clocks \subseteq DOMAIN clock'[i].clocks
               /\ \A p \in DOMAIN clock[i].clocks :
                     clock'[i].clocks[p] >= clock[i].clocks[p]]_vars

\* After its last get_time or export a clock was given a timestamp that is
\* behind its state.
C13_Witness ==
    /\ returned[1] # <<>>
    /\ returned[1][Len(returned[1])].args = {}
    /\ \E ts \in args[1] :
          IF kind = "Lamport" THEN ts.counter < clock[1].counter
          ELSE /\ clock[1].process_id \in DOMAIN ts
               /\ ts[clock[1].process_id] < clock[1].clocks[clock[1].process_id]

\* ------------------------------------------------------------ C14
\* C14: the process identity of a clock is fixed at construction: no
\* get_time, seen_time or export changes it, also when the observed
\* timestamp carries another process's identity; and every timestamp that a
\* Lamport clock returns carries the identity of that clock.
C14_IdentityFixed ==
    /\ [](kind = "Lamport" => \A e \in Events : Ts(e).process_id = Pid(e))
    /\ [][\A i \in Insts : clock'[i].process_id = clock[i].process_id]_vars

\* A Lamport clock returned a timestamp after it had observed the timestamp
\* of a clock with another process identity.
C14_Witness ==
    /\ kind = "Lamport"
    /\ \E b \in Events : \E a \in Ev(b).past :
          Ts(a).process_id # Ts(b).process_id

\* ------------------------------------------------------------ C15
\* The step is a seen_time call on clock i, and e is an event whose
\* timestamp it was given.
SeenStep(i, e) ==
    /\ returned' = returned /\ Len(clock') = Len(clock)
    /\ past'[i] # past[i] \/ clock'[i] # clock[i]
    /\ past'[i] = past[i] \cup Ev(e).past \cup {e}

\* A ticked twice, B ticked once, A observed B's timestamp and ticked.
ScenarioAB ==
    /\ kind = "Vector"
    /\ Len(returned[1]) >= 3 /\ Len(returned[2]) >= 1
    /\ returned[1][1].past = {}
    /\ returned[1][2].past = {<<1, 1>>}
    /\ returned[2][1].past = {}
    /\ returned[1][3].past = {<<1, 1>>, <<1, 2>>, <<2, 1>>}

\* C15: VectorClock.seen_time(ts) is a pure merge: afterwards frontier[pid]
\* = max(old frontier[pid] or 0, ts[pid]) for every pid in ts, every other
\* entry is unchanged and the clock's own entry is not ticked.  So when A
\* ticks twice ({A:2}), B ticks once ({B:1}), A observes {B:1} and ticks,
\* A returns {A:3, B:1}; {B:1} < {A:3, B:1} holds and the reverse does not.
C15_VectorMerge ==
    /\ [](ScenarioAB =>
            /\ returned[1][2].ts = (1 :> 2)
            /\ returned[2][1].ts = (2 :> 1)
            /\ returned[1][3].ts = (1 :> 3) @@ (2 :> 1)
            /\ LtOutcome(kind, returned[2][1].ts, returned[1][3].ts) = "True"
            /\ LtOutcome(kind, returned[1][3].ts, returned[2][1].ts) = "False")
    /\ [][\A i \in Insts : \A e \in Events :
             (kind = "Vector" /\ SeenStep(i, e)) =>
                /\ DOMAIN clock'[i].clocks = DOMAIN clock[i].clocks \cup DOMAIN Ts(e)
                /\ \A p \in DOMAIN Ts(e) :
                      clock'[i].clocks[p] = Max(Get(clock[i].clocks, p), Ts(e)[p])
                /\ \A p \in DOMAIN clock[i].clocks \ DOMAIN Ts(e) :
                      clock'[i].clocks[p] = clock[i].clocks[p]
                /\ clock'[i].process_id = clock[i].process_id]_vars

\* The run of the scenario, in which B never observed a timestamp of A.
C15_Witness ==
    /\ ScenarioAB
    /\ past[2] = {<<2, 1>>}
    /\ clock[1].clocks = (1 :> 3) @@ (2 :> 1)

\* ------------------------------------------------------------ C16
\* C16: LamportClock.seen_time(ts) sets counter to max(counter, ts.counter)
\* and changes nothing else: it ignores ts.process_id and adds no 1.
\* LamportClock.get_time adds exactly 1 to counter and returns (new counter,
\* own process_id).
C16_LamportSteps ==
    [][kind = "Lamport" =>
         /\ \A ts \in args'[1] \ args[1] :
               clock'[1] = [counter |-> Max(clock[1].counter, ts.counter),
                            process_id |-> clock[1].process_id]
         /\ (Len(returned'[1]) = Len(returned[1]) + 1
             /\ returned'[1][Len(returned'[1])].op = "get_time") =>
               /\ clock'[1] = [counter |-> clock[1].counter + 1,
                               process_id |-> clock[1].process_id]
               /\ returned'[1][Len(returned'[1])].ts =
                     [counter |-> clock[1].counter + 1,
                      process_id |-> clock[1].process_id]]_vars

\* A Lamport clock that had ticked was given a timestamp of another process
\* with its own counter value, and ticked again.
C16_Witness ==
    /\ kind = "Lamport"
    /\ Len(returned[1]) = 2
    /\ returned[1][1].args = {}
    /\ returned[1][2].op = "get_time"
    /\ returned[1][2].ts.counter = 2
    /\ \E ts \in returned[1][2].args :
          ts.process_id # clock[1].process_id /\ ts.counter = 1

\* ------------------------------------------------------------ C17
\* The comparison that reads an absent key as 0.
DefaultZeroLt(a, b) ==
    /\ \A k \in DOMAIN a : a[k] <= Get(b, k)
    /\ \E k \in DOMAIN a \cup DOMAIN b : Get(a, k) # Get(b, k)

\* C17: in every vector timestamp that is reachable from new VectorClocks by
\* get_time, seen_time of timestamps that clocks returned, export and
\* create_from_export, every entry is at least 1; so on these timestamps the
\* comparison of the code agrees with the comparison that reads an absent
\* key as 0.
C17_DefaultZeroAgrees ==
    kind = "Vector" =>
        /\ \A i \in Insts : \A k \in DOMAIN clock[i].clocks :
              clock[i].clocks[k] >= 1
        /\ \A a \in Events : \A k \in DOMAIN Ts(a) : Ts(a)[k] >= 1
        /\ \A a, b \in Events :
              /\ LtOutcome(kind, Ts(a), Ts(b)) \in {"True", "False"}
              /\ Lt(kind, Ts(a), Ts(b)) = DefaultZeroLt(Ts(a), Ts(b))

\* Timestamps with different key sets were returned, one by a restored
\* clock, and one of them is less than another.
C17_Witness ==
    /\ kind = "Vector"
    /\ \E a, b, c \in Events :
          /\ DOMAIN Ts(a) # DOMAIN Ts(b)
          /\ Lt(kind, Ts(a), Ts(b))
          /\ origin[c[1]] # NoneVal
          /\ ~ (DOMAIN Ts(c) \subseteq DOMAIN Ts(a))

\* ------------------------------------------------------------ C18
\* No two clock objects carry the same process identity.
NoSharedIds ==
    \A i, j \in Insts : i # j => clock[i].process_id # clock[j].process_id

\* C18: timestamps are globally unique in all executions, also when a clock
\* is created by create_from_export while the exporting clock keeps being
\* used: no two distinct get_time or export calls, on the same or on
\* different clocks, return equal timestamps.
C18_GloballyUnique ==
    \A a, b \in Events : a # b => Ts(a) # Ts(b)

\* C18 as amended: no two distinct get_time or export calls on one clock
\* return equal timestamps; and while no two clocks carry the same process
\* identity and seen_time is given only timestamps that clocks returned, no
\* two distinct calls on any clocks return equal timestamps.
C18_UniqueIds ==
    \A a, b \in Events :
        (a # b /\ (a[1] = b[1] \/ NoSharedIds)) => Ts(a) # Ts(b)

\* Two clocks with different identities returned timestamps, one of them
\* its second, which the other had observed before it returned its own.
C18_Witness ==
    /\ NoSharedIds
    /\ \E a, b \in Events :
          /\ a[1] # b[1]
          /\ a[2] = 2
          /\ a \in Ev(b).past

\* ------------------------------------------------------------ C19
\* C19: vector time characterises causality exactly: while all clocks carry
\* distinct process identities (no restored duplicate) and seen_time is
\* given only timestamps that get_time or export returned, ts(a) < ts(b) iff
\* a happens before b, for all events a and b; the timestamps of concurrent
\* events are incomparable.
C19_VectorCausality ==
    (kind = "Vector" /\ NoSharedIds) =>
        \A a, b \in Events :
            /\ Lt(kind, Ts(a), Ts(b)) = (a \in Ev(b).past)
            /\ (a # b /\ a \notin Ev(b).past /\ b \notin Ev(a).past)
                  => Incomparable(a, b)

\* An event of one clock precedes an event of another clock through an
\* observed timestamp, and a third event is concurrent with the later one.
C19_Witness ==
    /\ kind = "Vector" /\ NoSharedIds
    /\ \E a, b, c \in Events :
          /\ a[1] # b[1] /\ a \in Ev(b).past
          /\ c[1] = a[1] /\ c \notin Ev(b).past /\ b \notin Ev(c).past

\* ------------------------------------------------------------ C20
\* C20: < on vector timestamps is a strict partial order over all mappings
\* from process identities to counters: never A < A, never both A < B and
\* B < A, and A < B with B < C gives A < C.
C20_StrictPartialOrder ==
    (kind = "Vector" /\ cmp # Unset) =>
        /\ lhs = rhs => cmp = "False"
        /\ cmp = "True" =>
              /\ LtOutcome(kind, rhs, lhs) = "False"
              /\ \A c \in TimeStamps(kind, 1..NumCmpPids, MaxCmp) :
                    LtOutcome(kind, rhs, c) = "True" =>
                        LtOutcome(kind, lhs, c) = "True"

\* A < B held, and B < C holds for a mapping C with more keys than B, which
\* has more keys than A.
C20_Witness ==
    /\ kind = "Vector" /\ cmp = "True"
    /\ DOMAIN lhs # DOMAIN rhs
    /\ \E c \in TimeStamps(kind, 1..NumCmpPids, MaxCmp) :
          /\ LtOutcome(kind, rhs, c) = "True"
          /\ DOMAIN c # DOMAIN rhs
          /\ \E k \in DOMAIN lhs : lhs[k] < rhs[k] /\ rhs[k] < c[k]

====
